---- MODULE Spec2Model ----
(***************************************************************************)
(* Weighting-and-scoring engine of the poverty explorer:                   *)
(*   models/cells.py         GeographicCell.get_climate_weights            *)
(*   models/mpi.py           MPICalculator                                 *)
(*   models/enhanced_mpi.py  EnhancedMPICalculator                         *)
(*                                                                         *)
(* Numbers.  The Python code computes in floats.  Here every float is the  *)
(* exact rational it denotes (0.08 is 8/100, 1/6 is one sixth), written    *)
(* [n |-> numerator, d |-> denominator], d > 0, in lowest terms, and + * / *)
(* and >= are the exact operations.  IEEE-754 rounding (of the order of    *)
(* 1e-16 per operation) is not modelled.                                   *)
(*                                                                         *)
(* Values.  None is the record None; a raised exception is the record      *)
(* Raise(kind); a dict is a function from its keys.                        *)
(***************************************************************************)
EXTENDS Integers, Sequences, FiniteSets

VARIABLES
    STANDARD_WEIGHTS,   \* class attribute MPICalculator.STANDARD_WEIGHTS (a dict)
    ENHANCED_WEIGHTS,   \* class attribute EnhancedMPICalculator.ENHANCED_WEIGHTS
    cell,               \* the GeographicCell under study
    household,          \* the household under study (its deprivations)
    households,         \* the household collection handed to the aggregation
    tables,             \* the weight tables handed to the call, as they are after it
    call,               \* the engine call in progress: its name and arguments
    ret                 \* what that call returned or raised

vars == <<STANDARD_WEIGHTS, ENHANCED_WEIGHTS, cell, household, households, tables, call, ret>>

-----------------------------------------------------------------------------
(* Bounds of the model *)

\* context scalars given to the enhanced policy are k/Grid, k in 0..Grid
Grid == 2

\* a core deprivation vector has at most MaxDeprived non-zero indicators (or
\* all ten of them)
MaxDeprived == 4

\* an enhanced deprivation vector has at most MaxDeprivedEnhanced non-zero
\* components (or all of them)
MaxDeprivedEnhanced == 2

\* a constructor is handed a valid vector with at most MaxOverwritten of its
\* scalars replaced by another value, in or out of [0,1]
MaxOverwritten == 2

\* incomes and costs are multiples of 500 up to 500 * MaxAmount
MaxAmount == 4

\* a household collection has at most MaxHouseholds households
MaxHouseholds == 3

-----------------------------------------------------------------------------
(* Exact arithmetic standing for the float operations *)

None == [none |-> TRUE]

Raise(kind) == [error |-> kind]

IsError(v) == "error" \in DOMAIN v

Abs(i) == IF i < 0 THEN -i ELSE i

RECURSIVE GCD(_, _)
GCD(a, b) == IF b = 0 THEN a ELSE GCD(b, a % b)

\* the rational n/d (d # 0) in lowest terms with a positive denominator
Rat(n, d) ==
    LET s == IF d < 0 THEN -1 ELSE 1
        g == GCD(Abs(n), Abs(d))
    IN  [n |-> (s * n) \div g, d |-> (s * d) \div g]

Zero == Rat(0, 1)

One == Rat(1, 1)

Half == Rat(1, 2)

Add(x, y) == Rat(x.n * y.d + y.n * x.d, x.d * y.d)

Sub(x, y) == Rat(x.n * y.d - y.n * x.d, x.d * y.d)

Mul(x, y) == Rat(x.n * y.n, x.d * y.d)

\* x / y, y # 0
Div(x, y) == Rat(x.n * y.d, x.d * y.n)

Leq(x, y) == x.n * y.d <= y.n * x.d

Less(x, y) == x.n * y.d < y.n * x.d

Geq(x, y) == Leq(y, x)

Max(x, y) == IF Leq(x, y) THEN y ELSE x

\* np.clip(x, lo, hi)
Clip(x, lo, hi) == IF Less(x, lo) THEN lo ELSE IF Less(hi, x) THEN hi ELSE x

\* sum(f.values()), and any other sum over the keys of a dict
RECURSIVE SumOver(_, _)
SumOver(f, keys) ==
    IF keys = {} THEN Zero
    ELSE LET k == CHOOSE x \in keys : TRUE
         IN  Add(f[k], SumOver(f, keys \ {k}))

SumValues(f) == SumOver(f, DOMAIN f)

\* mutant of Normalize: the division by the total is left out
Normalize_NoDivision(weights) == weights

\* {k: v/total for k, v in weights.items()}
Normalize(weights) ==
    LET total == SumValues(weights)
    IN  [k \in DOMAIN weights |-> Div(weights[k], total)]

\* log10 of a power of ten (the densities of the model are powers of ten)
RECURSIVE Log10(_)
Log10(p) == IF p <= 1 THEN 0 ELSE 1 + Log10(p \div 10)

-----------------------------------------------------------------------------
(* models/mpi.py: the indicators and the standard table *)

Indicators ==
    {"nutrition", "child_mortality", "years_schooling", "school_attendance",
     "electricity", "sanitation", "drinking_water", "flooring", "cooking_fuel",
     "assets"}

StandardWeightsTable ==
    [i \in Indicators |->
        IF i \in {"nutrition", "child_mortality", "years_schooling", "school_attendance"}
        THEN Rat(1, 6)
        ELSE Rat(1, 18)]

POVERTY_CUTOFF == Rat(33, 100)

-----------------------------------------------------------------------------
(* models/cells.py *)

\* ClimateProfile.climate_harshness
climate_harshness(climate) ==
    LET comfort_deviation ==
            Div(Add(Max(Zero, Rat(18 - climate.temp_min, 1)),
                    Max(Zero, Rat(climate.temp_max - 24, 1))),
                Rat(50, 1))
        degree_days_factor ==
            Rat(climate.heating_degree_days + climate.cooling_degree_days, 3000)
    IN  Clip(Add(Mul(Half, comfort_deviation), Mul(Half, degree_days_factor)),
             Zero, One)

\* ContextFactors.urbanization_level
urbanization_level(context) ==
    LET density ==
            IF context.population_density < 1 THEN 1 ELSE context.population_density
        density_factor == Clip(Rat(Log10(density), 4), Zero, One)
    IN  Add(Mul(Half, density_factor), Mul(Half, context.urban_rural_index))

\* mutant of ClimateAllocations: flooring scales with urbanization instead
\* of harshness
ClimateAllocations_FlooringUrban(harshness, urbanization) ==
    [i \in Indicators |->
        CASE i = "electricity"       -> Add(Rat(8, 100), Mul(Rat(12, 100), harshness))
          [] i = "cooking_fuel"      -> Add(Rat(5, 100), Mul(Rat(5, 100), harshness))
          [] i = "sanitation"        -> Add(Rat(8, 100), Mul(Rat(7, 100), urbanization))
          [] i = "drinking_water"    -> Add(Rat(8, 100), Mul(Rat(7, 100), urbanization))
          [] i = "flooring"          -> Add(Rat(8, 100), Mul(Rat(7, 100), urbanization))
          [] i = "nutrition"         -> Rat(15, 100)
          [] i = "child_mortality"   -> Rat(15, 100)
          [] i = "years_schooling"   -> Rat(8, 100)
          [] i = "school_attendance" -> Rat(8, 100)
          [] i = "assets"            -> Rat(7, 100)]

\* mutant of ClimateAllocations: cooking_fuel scales with harshness by 0.005
\* instead of 0.05
ClimateAllocations_WeakCookingFuel(harshness, urbanization) ==
    [i \in Indicators |->
        CASE i = "electricity"       -> Add(Rat(8, 100), Mul(Rat(12, 100), harshness))
          [] i = "cooking_fuel"      -> Add(Rat(5, 100), Mul(Rat(5, 1000), harshness))
          [] i = "sanitation"        -> Add(Rat(8, 100), Mul(Rat(7, 100), urbanization))
          [] i = "drinking_water"    -> Add(Rat(8, 100), Mul(Rat(7, 100), urbanization))
          [] i = "flooring"          -> Add(Rat(8, 100), Mul(Rat(7, 100), harshness))
          [] i = "nutrition"         -> Rat(15, 100)
          [] i = "child_mortality"   -> Rat(15, 100)
          [] i = "years_schooling"   -> Rat(8, 100)
          [] i = "school_attendance" -> Rat(8, 100)
          [] i = "assets"            -> Rat(7, 100)]

\* mutant of ClimateAllocations: assets scales with harshness
ClimateAllocations_AssetsHarsh(harshness, urbanization) ==
    [i \in Indicators |->
        CASE i = "electricity"       -> Add(Rat(8, 100), Mul(Rat(12, 100), harshness))
          [] i = "cooking_fuel"      -> Add(Rat(5, 100), Mul(Rat(5, 100), harshness))
          [] i = "sanitation"        -> Add(Rat(8, 100), Mul(Rat(7, 100), urbanization))
          [] i = "drinking_water"    -> Add(Rat(8, 100), Mul(Rat(7, 100), urbanization))
          [] i = "flooring"          -> Add(Rat(8, 100), Mul(Rat(7, 100), harshness))
          [] i = "nutrition"         -> Rat(15, 100)
          [] i = "child_mortality"   -> Rat(15, 100)
          [] i = "years_schooling"   -> Rat(8, 100)
          [] i = "school_attendance" -> Rat(8, 100)
          [] i = "assets"            -> Add(Rat(7, 100), Mul(Rat(3, 100), harshness))]

\* the weight dict built in get_climate_weights, before normalization
ClimateAllocations(harshness, urbanization) ==
    [i \in Indicators |->
        CASE i = "electricity"       -> Add(Rat(8, 100), Mul(Rat(12, 100), harshness))
          [] i = "cooking_fuel"      -> Add(Rat(5, 100), Mul(Rat(5, 100), harshness))
          [] i = "sanitation"        -> Add(Rat(8, 100), Mul(Rat(7, 100), urbanization))
          [] i = "drinking_water"    -> Add(Rat(8, 100), Mul(Rat(7, 100), urbanization))
          [] i = "flooring"          -> Add(Rat(8, 100), Mul(Rat(7, 100), harshness))
          [] i = "nutrition"         -> Rat(15, 100)
          [] i = "child_mortality"   -> Rat(15, 100)
          [] i = "years_schooling"   -> Rat(8, 100)
          [] i = "school_attendance" -> Rat(8, 100)
          [] i = "assets"            -> Rat(7, 100)]

\* lines 113-115 of get_climate_weights: the table for given scalars
ClimateWeights(harshness, urbanization) ==
    Normalize(ClimateAllocations(harshness, urbanization))

\* mutant of get_climate_weights: a missing climate profile is replaced by
\* a harshness of 0.5 instead of raising
get_climate_weights_DefaultHarshness(c) ==
    LET harshness ==
            IF c.climate # None THEN climate_harshness(c.climate) ELSE Half
        urbanization ==
            IF c.context # None THEN urbanization_level(c.context) ELSE Half
    IN  ClimateWeights(harshness, urbanization)

\* GeographicCell.get_climate_weights
get_climate_weights(c) ==
    IF c.climate = None THEN Raise("ValueError")
    ELSE LET harshness == climate_harshness(c.climate)
             urbanization ==
                 IF c.context # None THEN urbanization_level(c.context) ELSE Half
         IN  ClimateWeights(harshness, urbanization)

-----------------------------------------------------------------------------
(* models/enhanced_mpi.py: the weight policies *)

SimpleIndicators ==
    {"nutrition", "child_mortality", "years_schooling", "school_attendance",
     "electricity", "sanitation", "drinking_water", "cooking_fuel", "assets"}

Dimensions == SimpleIndicators \cup
    {"housing", "digital", "transport", "economic_security", "environment"}

EnhancedWeightsTable ==
    [k \in Dimensions |->
        CASE k \in {"nutrition", "child_mortality", "years_schooling",
                    "school_attendance"}                        -> Rat(75, 1000)
          [] k \in {"electricity", "sanitation", "drinking_water"} -> Rat(6, 100)
          [] k \in {"cooking_fuel", "assets"}                   -> Rat(5, 100)
          [] k = "housing"                                      -> Rat(12, 100)
          [] k \in {"digital", "transport"}                     -> Rat(8, 100)
          [] k \in {"economic_security", "environment"}         -> Rat(7, 100)]

\* weights[key] += amount
Bump(weights, key, amount) == [weights EXCEPT ![key] = Add(@, amount)]

\* mutant of ContextAllocations: the entries are renormalized after the
\* climate adjustments and again at the end (two passes instead of one)
ContextAllocations_TwoPass(base, climate_harshness_, urbanization, sprawl_index, digital_economy_intensity, rental_market_tightness) ==
    LET w0 == base
        w1 == Bump(w0, "electricity", Mul(Rat(4, 100), climate_harshness_))
        w2 == Bump(w1, "cooking_fuel", Mul(Rat(2, 100), climate_harshness_))
        w3 == Normalize(Bump(w2, "housing", Mul(Rat(3, 100), climate_harshness_)))
        w4 == Bump(w3, "sanitation", Mul(Rat(4, 100), urbanization))
        w5 == Bump(w4, "drinking_water", Mul(Rat(4, 100), urbanization))
        w6 == Bump(w5, "transport", Mul(Rat(6, 100), sprawl_index))
        w7 == Bump(w6, "digital", Mul(Rat(5, 100), digital_economy_intensity))
    IN  w7

\* mutant of ContextAllocations: rental tightness adds to the housing entry
ContextAllocations_RentalHousing(base, climate_harshness_, urbanization, sprawl_index, digital_economy_intensity, rental_market_tightness) ==
    LET w0 == base
        w1 == Bump(w0, "electricity", Mul(Rat(4, 100), climate_harshness_))
        w2 == Bump(w1, "cooking_fuel", Mul(Rat(2, 100), climate_harshness_))
        w3 == Bump(w2, "housing", Mul(Rat(3, 100), climate_harshness_))
        w4 == Bump(w3, "sanitation", Mul(Rat(4, 100), urbanization))
        w5 == Bump(w4, "drinking_water", Mul(Rat(4, 100), urbanization))
        w6 == Bump(w5, "transport", Mul(Rat(6, 100), sprawl_index))
        w7 == Bump(w6, "digital", Mul(Rat(5, 100), digital_economy_intensity))
        w8 == Bump(w7, "housing", Mul(Rat(5, 100), rental_market_tightness))
    IN  w8

\* lines 232-247: the copy of the base table after the additive adjustments
ContextAllocations(base, climate_harshness_, urbanization, sprawl_index, digital_economy_intensity, rental_market_tightness) ==
    LET w0 == base
        w1 == Bump(w0, "electricity", Mul(Rat(4, 100), climate_harshness_))
        w2 == Bump(w1, "cooking_fuel", Mul(Rat(2, 100), climate_harshness_))
        w3 == Bump(w2, "housing", Mul(Rat(3, 100), climate_harshness_))
        w4 == Bump(w3, "sanitation", Mul(Rat(4, 100), urbanization))
        w5 == Bump(w4, "drinking_water", Mul(Rat(4, 100), urbanization))
        w6 == Bump(w5, "transport", Mul(Rat(6, 100), sprawl_index))
        w7 == Bump(w6, "digital", Mul(Rat(5, 100), digital_economy_intensity))
    IN  w7

\* mutant of EnhancedWeightsAfter: the adjustments are made on the class
\* table itself (weights = cls.ENHANCED_WEIGHTS, without .copy())
EnhancedWeightsAfter_NoCopy(base, climate_harshness_, urbanization, sprawl_index, digital_economy_intensity, rental_market_tightness) ==
    ContextAllocations(base, climate_harshness_, urbanization, sprawl_index,
                       digital_economy_intensity, rental_market_tightness)

\* cls.ENHANCED_WEIGHTS after get_context_adjusted_weights: line 232 copies
\* the class table and lines 235-247 adjust the copy
EnhancedWeightsAfter(base, climate_harshness_, urbanization, sprawl_index, digital_economy_intensity, rental_market_tightness) ==
    base

\* EnhancedMPICalculator.get_context_adjusted_weights
get_context_adjusted_weights(base, climate_harshness_, urbanization, sprawl_index, digital_economy_intensity, rental_market_tightness) ==
    Normalize(ContextAllocations(base, climate_harshness_, urbanization, sprawl_index,
                                 digital_economy_intensity, rental_market_tightness))

\* mutant of calculate_housing_subcomponent_weights: rental tightness is
\* added to the tenure weight instead of the cost weight
calculate_housing_subcomponent_weights_Tenure(climate_harshness_, rental_market_tightness) ==
    LET structure_weight == Add(Rat(40, 100), Mul(Rat(10, 100), climate_harshness_))
        tenure_weight == Add(Rat(30, 100), Mul(Rat(15, 100), rental_market_tightness))
        cost_weight == Rat(30, 100)
        total == Add(Add(structure_weight, tenure_weight), cost_weight)
    IN  [structure |-> Div(structure_weight, total),
         tenure |-> Div(tenure_weight, total),
         cost |-> Div(cost_weight, total)]

\* EnhancedMPICalculator.calculate_housing_subcomponent_weights
calculate_housing_subcomponent_weights(climate_harshness_, rental_market_tightness) ==
    LET structure_weight == Add(Rat(40, 100), Mul(Rat(10, 100), climate_harshness_))
        tenure_weight == Rat(30, 100)
        cost_weight == Add(Rat(30, 100), Mul(Rat(15, 100), rental_market_tightness))
        total == Add(Add(structure_weight, tenure_weight), cost_weight)
    IN  [structure |-> Div(structure_weight, total),
         tenure |-> Div(tenure_weight, total),
         cost |-> Div(cost_weight, total)]

-----------------------------------------------------------------------------
(* models/mpi.py: MPICalculator *)

\* mutant of DeprivationScore: only the upper end of the range is checked
DeprivationScore_UpperOnly(values) ==
    IF \E field_name \in DOMAIN values : ~Leq(values[field_name], One)
    THEN Raise("ValueError")
    ELSE values

\* DeprivationScore(...): the dataclass constructor with its __post_init__;
\* the object is its fields
DeprivationScore(values) ==
    IF \E field_name \in DOMAIN values :
           ~(Leq(Zero, values[field_name]) /\ Leq(values[field_name], One))
    THEN Raise("ValueError")
    ELSE values

\* score = 0.0; for key in keys: score += w[key] * values[key]
WeightedSum(w, values, keys) == SumOver([k \in keys |-> Mul(w[k], values[k])], keys)

\* mutant of calculate_deprivation_score: the loop runs over the fields of
\* the deprivation vector and a missing weight falls back to the standard one
calculate_deprivation_score_AllFields(std, deprivations, weights) ==
    LET w == IF weights = None THEN std ELSE weights
        full == [k \in DOMAIN deprivations |->
                    IF k \in DOMAIN w THEN w[k] ELSE std[k]]
    IN  IF \E k \in DOMAIN w : k \notin DOMAIN deprivations
        THEN Raise("AttributeError")
        ELSE WeightedSum(full, deprivations, DOMAIN deprivations)

\* mutant of calculate_deprivation_score: the default table is the uniform
\* one, a tenth per indicator
calculate_deprivation_score_UniformDefault(std, deprivations, weights) ==
    LET w == IF weights = None THEN [k \in DOMAIN std |-> Rat(1, 10)] ELSE weights
    IN  IF \E k \in DOMAIN w : k \notin DOMAIN deprivations
        THEN Raise("AttributeError")
        ELSE WeightedSum(w, deprivations, DOMAIN w)

\* MPICalculator.calculate_deprivation_score; std is cls.STANDARD_WEIGHTS.
\* getattr(deprivations, indicator) raises AttributeError for a key of the
\* table that is no field of the vector.
calculate_deprivation_score(std, deprivations, weights) ==
    LET w == IF weights = None THEN std ELSE weights
    IN  IF \E k \in DOMAIN w : k \notin DOMAIN deprivations
        THEN Raise("AttributeError")
        ELSE WeightedSum(w, deprivations, DOMAIN w)

\* mutant of is_poor: a score equal to the cutoff is not poor
is_poor_Strict(deprivation_score, cutoff) ==
    LET c == IF cutoff = None THEN POVERTY_CUTOFF ELSE cutoff
    IN  Less(c, deprivation_score)

\* mutant of is_poor: the default is taken with `cutoff or POVERTY_CUTOFF`,
\* so a cutoff of 0 is replaced by 0.33
is_poor_CutoffOrDefault(deprivation_score, cutoff) ==
    LET c == IF cutoff = None \/ cutoff = Zero THEN POVERTY_CUTOFF ELSE cutoff
    IN  Geq(deprivation_score, c)

\* MPICalculator.is_poor
is_poor(deprivation_score, cutoff) ==
    LET c == IF cutoff = None THEN POVERTY_CUTOFF ELSE cutoff
    IN  Geq(deprivation_score, c)

\* mutant of calculate_intensity: the caller's cutoff is ignored
calculate_intensity_DefaultCutoff(deprivation_score, cutoff) ==
    IF Geq(deprivation_score, POVERTY_CUTOFF) THEN deprivation_score ELSE Zero

\* MPICalculator.calculate_intensity
calculate_intensity(deprivation_score, cutoff) ==
    LET c == IF cutoff = None THEN POVERTY_CUTOFF ELSE cutoff
    IN  IF Geq(deprivation_score, c) THEN deprivation_score ELSE Zero

\* MPICalculator.calculate_household_mpi; an exception of the scoring
\* propagates
calculate_household_mpi(std, hh, weights, cutoff) ==
    LET score == calculate_deprivation_score(std, hh.deprivations, weights)
    IN  IF IsError(score) THEN score
        ELSE [deprivation_score |-> score,
              is_poor |-> is_poor(score, cutoff),
              intensity |-> calculate_intensity(score, cutoff)]

\* mutant of compare_standard_vs_adjusted: the difference is taken as
\* standard - adjusted
compare_standard_vs_adjusted_Reversed(std, hh, adjusted_weights) ==
    LET standard == calculate_household_mpi(std, hh, None, None)
        adjusted == calculate_household_mpi(std, hh, adjusted_weights, None)
    IN  IF IsError(standard) THEN standard
        ELSE IF IsError(adjusted) THEN adjusted
        ELSE [standard |-> standard,
              adjusted |-> adjusted,
              difference |->
                  [deprivation_score |->
                       Sub(standard.deprivation_score, adjusted.deprivation_score),
                   classification_changed |->
                       standard.is_poor # adjusted.is_poor]]

\* MPICalculator.compare_standard_vs_adjusted; an exception of either
\* household result propagates
compare_standard_vs_adjusted(std, hh, adjusted_weights) ==
    LET standard == calculate_household_mpi(std, hh, None, None)
        adjusted == calculate_household_mpi(std, hh, adjusted_weights, None)
    IN  IF IsError(standard) THEN standard
        ELSE IF IsError(adjusted) THEN adjusted
        ELSE [standard |-> standard,
              adjusted |-> adjusted,
              difference |->
                  [deprivation_score |->
                       Sub(adjusted.deprivation_score, standard.deprivation_score),
                   classification_changed |->
                       standard.is_poor # adjusted.is_poor]]

-----------------------------------------------------------------------------
(* models/enhanced_mpi.py: composite scores and EnhancedMPICalculator *)

\* the fields of the five composite sub-vectors
SubFields ==
    [housing |-> {"structure_quality", "tenure_security", "cost_burden"},
     digital |-> {"no_internet_access", "no_device", "digital_illiteracy"},
     transport |-> {"excessive_commute_time", "transport_cost_burden",
                    "no_transport_access"},
     economic_security |-> {"income_volatility", "no_emergency_savings",
                            "no_social_protection", "high_debt_burden"},
     environment |-> {"poor_air_quality", "flood_risk", "heat_exposure",
                      "toxic_proximity"}]

\* the constructors of the five composite sub-vectors: plain dataclasses
\* without a __post_init__, the object is its fields as given
EnhancedHousingDeprivation(values) == values

DigitalDeprivation(values) == values

TransportDeprivation(values) == values

EconomicVulnerability(values) == values

EnvironmentalDeprivation(values) == values

\* isinstance(value, float) for the values of the model: a float is a
\* rational record, a sub-vector is a record of its fields
IsFloat(value) == DOMAIN value = {"n", "d"}

\* EnhancedDeprivationScore(...): the dataclass constructor with its
\* __post_init__, which looks at the float fields of the object itself
EnhancedDeprivationScore(values) ==
    IF \E field_name \in DOMAIN values :
           /\ IsFloat(values[field_name])
           /\ ~(Leq(Zero, values[field_name]) /\ Leq(values[field_name], One))
    THEN Raise("ValueError")
    ELSE values

\* EnhancedHousingDeprivation.composite_score
housing_composite_score(h) ==
    Add(Add(Mul(Rat(4, 10), h.structure_quality), Mul(Rat(3, 10), h.tenure_security)),
        Mul(Rat(3, 10), h.cost_burden))

\* DigitalDeprivation.composite_score
digital_composite_score(g) ==
    Div(Add(Add(g.no_internet_access, g.no_device), g.digital_illiteracy), Rat(3, 1))

\* TransportDeprivation.composite_score
transport_composite_score(t) ==
    Add(Add(Mul(Rat(4, 10), t.no_transport_access),
            Mul(Rat(3, 10), t.excessive_commute_time)),
        Mul(Rat(3, 10), t.transport_cost_burden))

\* EconomicVulnerability.composite_score
economic_composite_score(e) ==
    Div(Add(Add(e.income_volatility, e.no_emergency_savings),
            Add(e.no_social_protection, e.high_debt_burden)), Rat(4, 1))

\* EnvironmentalDeprivation.composite_score
environment_composite_score(e) ==
    Add(Add(Mul(Rat(3, 10), e.poor_air_quality), Mul(Rat(3, 10), e.heat_exposure)),
        Add(Mul(Rat(25, 100), e.flood_risk), Mul(Rat(15, 100), e.toxic_proximity)))

ENHANCED_POVERTY_CUTOFF == Rat(33, 100)

\* the housing_weights default of calculate_deprivation_score
DefaultHousingWeights == [structure |-> Rat(4, 10), tenure |-> Rat(3, 10), cost |-> Rat(3, 10)]

\* mutant of enhanced_calculate_deprivation_score: the housing term is
\* weights['housing'] * housing.composite_score whatever housing_weights is
enhanced_calculate_deprivation_score_FixedHousing(base, deprivations, weights, housing_weights) ==
    LET w == IF weights = None THEN base ELSE weights
    IN  IF ~(Dimensions \subseteq DOMAIN w) THEN Raise("KeyError")
        ELSE Add(WeightedSum(w, deprivations, SimpleIndicators),
             Add(Mul(w["housing"], housing_composite_score(deprivations.housing)),
             Add(Mul(w["digital"], digital_composite_score(deprivations.digital)),
             Add(Mul(w["transport"], transport_composite_score(deprivations.transport)),
             Add(Mul(w["economic_security"],
                     economic_composite_score(deprivations.economic_security)),
                 Mul(w["environment"],
                     environment_composite_score(deprivations.environment)))))))

\* EnhancedMPICalculator.calculate_deprivation_score; base is
\* cls.ENHANCED_WEIGHTS.  weights[k] and housing_weights[k] raise KeyError
\* for a missing key.
enhanced_calculate_deprivation_score(base, deprivations, weights, housing_weights) ==
    LET w == IF weights = None THEN base ELSE weights
        hw == IF housing_weights = None THEN DefaultHousingWeights ELSE housing_weights
        housing_deprivation ==
            Add(Add(Mul(hw["structure"], deprivations.housing.structure_quality),
                    Mul(hw["tenure"], deprivations.housing.tenure_security)),
                Mul(hw["cost"], deprivations.housing.cost_burden))
    IN  IF ~(Dimensions \subseteq DOMAIN w) \/ ~({"structure", "tenure", "cost"} \subseteq DOMAIN hw)
        THEN Raise("KeyError")
        ELSE Add(WeightedSum(w, deprivations, SimpleIndicators),
             Add(Mul(w["housing"], housing_deprivation),
             Add(Mul(w["digital"], digital_composite_score(deprivations.digital)),
             Add(Mul(w["transport"], transport_composite_score(deprivations.transport)),
             Add(Mul(w["economic_security"],
                     economic_composite_score(deprivations.economic_security)),
                 Mul(w["environment"],
                     environment_composite_score(deprivations.environment)))))))

\* EnhancedMPICalculator.calculate_household_mpi
enhanced_calculate_household_mpi(base, hh, weights, housing_weights, cutoff) ==
    LET score == enhanced_calculate_deprivation_score(base, hh.deprivations, weights,
                                                      housing_weights)
        c == IF cutoff = None THEN ENHANCED_POVERTY_CUTOFF ELSE cutoff
        poor == IF IsError(score) THEN FALSE ELSE Geq(score, c)
    IN  IF IsError(score) THEN score
        ELSE [deprivation_score |-> score,
              is_poor |-> poor,
              intensity |-> IF poor THEN score ELSE Zero]

\* the truth value Python gives an Optional[float]: None and 0.0 are false
Truthy(x) == x # None /\ x # Zero

\* EnhancedHouseholdData.housing_cost_burden
housing_cost_burden(hh) ==
    IF Truthy(hh.monthly_income) /\ Truthy(hh.monthly_housing_cost)
           /\ Less(Zero, hh.monthly_income)
    THEN Div(hh.monthly_housing_cost, hh.monthly_income)
    ELSE None

\* EnhancedHouseholdData.transport_cost_burden
transport_cost_burden(hh) ==
    IF Truthy(hh.monthly_income) /\ Truthy(hh.monthly_transport_cost)
           /\ Less(Zero, hh.monthly_income)
    THEN Div(hh.monthly_transport_cost, hh.monthly_income)
    ELSE None

-----------------------------------------------------------------------------
(* models/mpi.py: population aggregation *)

RECURSIVE SumSeq(_)
SumSeq(q) == IF q = <<>> THEN Zero ELSE Add(Head(q), SumSeq(Tail(q)))

\* mutant of Mean: a running average, avg = (avg + x) / 2 from the second
\* element on
RECURSIVE Mean_Running(_)
Mean_Running(q) ==
    IF Len(q) = 1 THEN q[1]
    ELSE Div(Add(Mean_Running(SubSeq(q, 1, Len(q) - 1)), q[Len(q)]), Rat(2, 1))

\* np.mean of a non-empty list
Mean(q) == Div(SumSeq(q), Rat(Len(q), 1))

\* mutant of calculate_population_mpi: the intensity is averaged over all
\* households (the poor and the non-poor, whose intensity is 0)
calculate_population_mpi_MeanOverAll(std, hhs, weights, cutoff) ==
    LET results == [i \in 1..Len(hhs) |-> calculate_household_mpi(std, hhs[i], weights, cutoff)]
        poor == SelectSeq(results, LAMBDA r : r.is_poor)
        num_poor == Len(poor)
        total == Len(hhs)
        headcount_ratio == IF total > 0 THEN Rat(num_poor, total) ELSE Zero
        avg_intensity ==
            IF num_poor > 0
            THEN Mean([i \in 1..Len(results) |-> results[i].intensity])
            ELSE Zero
    IN  IF hhs = <<>>
        THEN [MPI |-> Zero, headcount_ratio |-> Zero, intensity |-> Zero,
              num_poor |-> 0, total_population |-> 0]
        ELSE IF \E i \in 1..Len(results) : IsError(results[i])
        THEN CHOOSE e \in {results[i] : i \in 1..Len(results)} : IsError(e)
        ELSE [MPI |-> Mul(headcount_ratio, avg_intensity),
              headcount_ratio |-> headcount_ratio,
              intensity |-> avg_intensity,
              num_poor |-> num_poor,
              total_population |-> total,
              avg_deprivation_score |->
                  Mean([i \in 1..Len(results) |-> results[i].deprivation_score])]

\* mutant of calculate_population_mpi: the MPI is the mean raw score of all
\* households instead of headcount_ratio * intensity
calculate_population_mpi_MpiIsMeanScore(std, hhs, weights, cutoff) ==
    LET r == calculate_population_mpi_MeanOverAll(std, hhs, weights, cutoff)
        results == [i \in 1..Len(hhs) |-> calculate_household_mpi(std, hhs[i], weights, cutoff)]
        poor == SelectSeq(results, LAMBDA x : x.is_poor)
    IN  IF hhs = <<>> \/ IsError(r)
        THEN r
        ELSE [r EXCEPT !.intensity =
                           IF Len(poor) > 0
                           THEN Mean([i \in 1..Len(poor) |-> poor[i].intensity])
                           ELSE Zero,
                       !.MPI = r.avg_deprivation_score]

\* mutant of calculate_population_mpi: no early return for the empty list,
\* and the headcount ratio divides by the total unguarded
calculate_population_mpi_NoEmptyGuard(std, hhs, weights, cutoff) ==
    LET results == [i \in 1..Len(hhs) |-> calculate_household_mpi(std, hhs[i], weights, cutoff)]
        poor == SelectSeq(results, LAMBDA r : r.is_poor)
        num_poor == Len(poor)
        total == Len(hhs)
        avg_intensity ==
            IF num_poor > 0
            THEN Mean([i \in 1..Len(poor) |-> poor[i].intensity])
            ELSE Zero
    IN  IF total = 0
        THEN Raise("ZeroDivisionError")
        ELSE IF \E i \in 1..Len(results) : IsError(results[i])
        THEN CHOOSE e \in {results[i] : i \in 1..Len(results)} : IsError(e)
        ELSE [MPI |-> Mul(Rat(num_poor, total), avg_intensity),
              headcount_ratio |-> Rat(num_poor, total),
              intensity |-> avg_intensity,
              num_poor |-> num_poor,
              total_population |-> total,
              avg_deprivation_score |->
                  Mean([i \in 1..Len(results) |-> results[i].deprivation_score])]

\* MPICalculator.calculate_population_mpi; an exception of a household's
\* scoring propagates
calculate_population_mpi(std, hhs, weights, cutoff) ==
    LET results == [i \in 1..Len(hhs) |-> calculate_household_mpi(std, hhs[i], weights, cutoff)]
        poor == SelectSeq(results, LAMBDA r : r.is_poor)
        num_poor == Len(poor)
        total == Len(hhs)
        headcount_ratio == IF total > 0 THEN Rat(num_poor, total) ELSE Zero
        avg_intensity ==
            IF num_poor > 0
            THEN Mean([i \in 1..Len(poor) |-> poor[i].intensity])
            ELSE Zero
    IN  IF hhs = <<>>
        THEN [MPI |-> Zero, headcount_ratio |-> Zero, intensity |-> Zero,
              num_poor |-> 0, total_population |-> 0]
        ELSE IF \E i \in 1..Len(results) : IsError(results[i])
        THEN CHOOSE e \in {results[i] : i \in 1..Len(results)} : IsError(e)
        ELSE [MPI |-> Mul(headcount_ratio, avg_intensity),
              headcount_ratio |-> headcount_ratio,
              intensity |-> avg_intensity,
              num_poor |-> num_poor,
              total_population |-> total,
              avg_deprivation_score |->
                  Mean([i \in 1..Len(results) |-> results[i].deprivation_score])]

-----------------------------------------------------------------------------
(* The inputs of the model *)

\* a context scalar in [0,1]: harshness, urbanization, sprawl, digital
\* intensity, rental tightness
Scalars == {Rat(k, Grid) : k \in 0..Grid}

\* ClimateProfile instances (temperatures in degrees C, degree days per year)
ClimateProfiles ==
    {[temp_min |-> t[1], temp_max |-> t[2],
      heating_degree_days |-> hdd, cooling_degree_days |-> cdd] :
        t \in {<<18, 24>>, <<10, 38>>, <<-7, 49>>},
        hdd \in {0, 100, 3000}, cdd \in {0, 800, 3000}}

\* the values a caller hands to a constructor: the grid of [0,1], a value
\* just below 0 and a value just above 1
RawValues == Scalars \cup {Rat(-1, Grid), Rat(Grid + 1, Grid)}

\* ContextFactors instances (densities are powers of ten, or 0); the
\* dataclass has no __post_init__, so urban_rural_index is any raw value
ContextFactorsSet ==
    {[population_density |-> p, urban_rural_index |-> x] :
        p \in {0, 100, 10000, 1000000}, x \in RawValues}

\* GeographicCell instances: climate and context are Optional
Cells ==
    {[climate |-> cl, context |-> cx] :
        cl \in ClimateProfiles \cup {None}, cx \in ContextFactorsSet \cup {None}}

NoCall == [op |-> "none"]

\* the subsets of U with at most k elements
RECURSIVE KSubsets(_, _)
KSubsets(U, k) ==
    IF k = 0 THEN {{}}
    ELSE LET smaller == KSubsets(U, k - 1)
         IN  smaller \cup {T \cup {x} : T \in smaller, x \in U}

\* the non-zero deprivation values of the model: partially deprived, deprived
Levels == {Half, One}

\* DeprivationScore instances: value v on the indicators of S, 0 elsewhere
DeprivationScoreOf(S, v) == [i \in Indicators |-> IF i \in S THEN v ELSE Zero]

DeprivationScores ==
    {DeprivationScoreOf(S, v) :
        S \in KSubsets(Indicators, MaxDeprived) \cup {Indicators}, v \in Levels}

\* HouseholdData instances (the fields the engine reads)
Households == {[deprivations |-> d] : d \in DeprivationScores}

\* the scalar components of an EnhancedDeprivationScore: <<field, "">> for a
\* simple indicator, <<sub-vector, field>> for a component of a sub-vector
Components ==
    {<<k, "">> : k \in SimpleIndicators}
        \cup UNION {{<<k, f>> : f \in SubFields[k]} : k \in DOMAIN SubFields}

\* EnhancedDeprivationScore instances: value v on the components of S
EnhancedDeprivationScoreOf(S, v) ==
    [k \in Dimensions |->
        IF k \in SimpleIndicators
        THEN IF <<k, "">> \in S THEN v ELSE Zero
        ELSE [f \in SubFields[k] |-> IF <<k, f>> \in S THEN v ELSE Zero]]

EnhancedDeprivationScores ==
    {EnhancedDeprivationScoreOf(S, v) :
        S \in KSubsets(Components, MaxDeprivedEnhanced) \cup {Components}, v \in Levels}

\* EnhancedHouseholdData instances (the fields the engine reads)
EnhancedHouseholds == {[deprivations |-> d] : d \in EnhancedDeprivationScores}

\* the arguments of DeprivationScore(...): a uniform valid vector with at
\* most MaxOverwritten indicators replaced by a raw value
RawDeprivationScores ==
    {[i \in Indicators |-> IF i \in S THEN v ELSE b] :
        S \in KSubsets(Indicators, MaxOverwritten), v \in RawValues, b \in Scalars}

\* the arguments of the enhanced constructors: a uniform valid vector with at
\* most MaxOverwritten scalar components replaced by a raw value
RawEnhancedDeprivationScores ==
    {[k \in Dimensions |->
        IF k \in SimpleIndicators
        THEN IF <<k, "">> \in S THEN v ELSE b
        ELSE [f \in SubFields[k] |-> IF <<k, f>> \in S THEN v ELSE b]] :
        S \in KSubsets(Components, MaxOverwritten), v \in RawValues, b \in Scalars}

\* caller-made weight tables: normalized tables over some of the indicators
CustomWeightTables ==
    {[k \in {"nutrition", "electricity"} |->
        IF k = "nutrition" THEN Rat(33, 100) ELSE Rat(67, 100)],
     [k \in {"sanitation", "drinking_water", "flooring"} |-> Rat(1, 3)]}

\* the tables the climate policy returns (GeographicCell.get_climate_weights)
ClimateWeightTables == {ClimateWeights(h, u) : h \in Scalars, u \in Scalars}

\* a caller-made table that does not sum to 1: the allocations of the
\* climate policy before their normalization (sum 1.28)
UnnormalizedWeightTables == {ClimateAllocations(One, One)}

\* the weights argument of MPICalculator: None, a climate-adjusted table, a
\* caller-made table, or (by mistake) the 14-entry enhanced table
WeightArgs ==
    {None} \cup ClimateWeightTables \cup CustomWeightTables
        \cup UnnormalizedWeightTables \cup {EnhancedWeightsTable}

\* the cutoff argument: None, or a caller's cutoff
CutoffArgs == {None, Zero, Rat(1, 3)}

\* tables the context policy returns (get_context_adjusted_weights)
ContextWeightTables ==
    {get_context_adjusted_weights(EnhancedWeightsTable, One, One, One, One, One),
     get_context_adjusted_weights(EnhancedWeightsTable, Half, One, Zero, One, Half)}

\* a caller-made 14-entry table that does not sum to 1: the allocations of
\* the context policy before their normalization (sum 1.28)
EnhancedUnnormalizedWeightTables ==
    {ContextAllocations(EnhancedWeightsTable, One, One, One, One, One)}

\* the weights argument of EnhancedMPICalculator: None, a context-adjusted
\* table, a table that is not normalized, or (by mistake) the ten-entry
\* standard table
EnhancedWeightArgs ==
    {None, StandardWeightsTable} \cup ContextWeightTables
        \cup EnhancedUnnormalizedWeightTables

\* the housing_weights argument: None or a sub-component table
HousingWeightArgs ==
    {None, calculate_housing_subcomponent_weights(Zero, One),
     calculate_housing_subcomponent_weights(One, Zero)}

EnhancedCutoffArgs == {None, Zero, Rat(15, 100)}

\* the households a collection is made of
PopulationPool ==
    {[deprivations |-> DeprivationScoreOf({}, One)],
     [deprivations |-> DeprivationScoreOf({"nutrition", "child_mortality"}, One)],
     [deprivations |-> DeprivationScoreOf({"electricity", "sanitation", "flooring",
                                           "cooking_fuel"}, One)],
     [deprivations |-> DeprivationScoreOf(Indicators, Half)],
     [deprivations |-> DeprivationScoreOf(Indicators, One)]}

\* the weights argument of the aggregation: None, the table of a harsh rural
\* and of a mild urban cell, a caller-made table, or (by mistake) the
\* 14-entry enhanced table
PopulationWeightArgs ==
    {None, ClimateWeights(One, Zero), ClimateWeights(Zero, One), EnhancedWeightsTable}
        \cup {t \in CustomWeightTables : "nutrition" \in DOMAIN t}

\* the household collections: lists of 0 to MaxHouseholds households
HouseholdLists == UNION {[1..n -> PopulationPool] : n \in 0..MaxHouseholds}

\* an income or a cost: absent, or an amount from 0 upwards
Amounts == {None} \cup {Rat(500 * k, 1) : k \in 0..MaxAmount}

\* EnhancedHouseholdData instances (the economic context the cost-burden
\* properties read)
EconomicHouseholds ==
    {[monthly_income |-> i, monthly_housing_cost |-> h, monthly_transport_cost |-> t] :
        i \in Amounts, h \in Amounts, t \in Amounts}

-----------------------------------------------------------------------------
(* State machine.  The engine keeps no state of its own besides the two    *)
(* class-level tables; an action is one call: it draws the arguments,      *)
(* records them in call, and leaves the result in ret and the argument     *)
(* objects, as they are after the call, in cell/household/households.      *)

Init ==
    /\ STANDARD_WEIGHTS = StandardWeightsTable
    /\ ENHANCED_WEIGHTS = EnhancedWeightsTable
    /\ cell = None
    /\ household = None
    /\ households = <<>>
    /\ tables = None
    /\ call = NoCall
    /\ ret = None

\* the caller takes the result; the argument objects go out of scope
Return ==
    /\ call # NoCall
    /\ call' = NoCall
    /\ ret' = None
    /\ cell' = None
    /\ household' = None
    /\ households' = <<>>
    /\ tables' = None
    /\ UNCHANGED <<STANDARD_WEIGHTS, ENHANCED_WEIGHTS>>

\* MPICalculator.STANDARD_WEIGHTS read by a caller (the standard policy)
StandardWeights ==
    /\ call = NoCall
    /\ call' = [op |-> "STANDARD_WEIGHTS"]
    /\ ret' = STANDARD_WEIGHTS
    /\ UNCHANGED <<STANDARD_WEIGHTS, ENHANCED_WEIGHTS, cell, household, households, tables>>

\* cell.get_climate_weights()
GetClimateWeights ==
    /\ call = NoCall
    /\ \E c \in Cells :
        /\ call' = [op |-> "get_climate_weights", self |-> c]
        /\ cell' = c
        /\ ret' = get_climate_weights(c)
    /\ UNCHANGED <<STANDARD_WEIGHTS, ENHANCED_WEIGHTS, household, households, tables>>

\* EnhancedMPICalculator.get_context_adjusted_weights(h, u, sprawl, digital, rental)
GetContextAdjustedWeights ==
    /\ call = NoCall
    /\ \E h \in Scalars, u \in Scalars, s \in Scalars, g \in Scalars, r \in Scalars :
        /\ call' = [op |-> "get_context_adjusted_weights",
                    climate_harshness |-> h, urbanization |-> u, sprawl_index |-> s,
                    digital_economy_intensity |-> g, rental_market_tightness |-> r]
        /\ ret' = get_context_adjusted_weights(ENHANCED_WEIGHTS, h, u, s, g, r)
        /\ ENHANCED_WEIGHTS' = EnhancedWeightsAfter(ENHANCED_WEIGHTS, h, u, s, g, r)
    /\ UNCHANGED <<STANDARD_WEIGHTS, cell, household, households, tables>>

\* EnhancedMPICalculator.calculate_housing_subcomponent_weights(h, rental)
CalculateHousingSubcomponentWeights ==
    /\ call = NoCall
    /\ \E h \in Scalars, r \in Scalars :
        /\ call' = [op |-> "calculate_housing_subcomponent_weights",
                    climate_harshness |-> h, rental_market_tightness |-> r]
        /\ ret' = calculate_housing_subcomponent_weights(h, r)
    /\ UNCHANGED <<STANDARD_WEIGHTS, ENHANCED_WEIGHTS, cell, household, households, tables>>

\* MPICalculator.calculate_deprivation_score(deprivations, weights)
CalculateDeprivationScore ==
    /\ call = NoCall
    /\ \E hh \in Households, w \in WeightArgs :
        /\ call' = [op |-> "calculate_deprivation_score",
                    deprivations |-> hh.deprivations, weights |-> w]
        /\ household' = hh
        /\ tables' = [weights |-> w]
        /\ ret' = calculate_deprivation_score(STANDARD_WEIGHTS, hh.deprivations, w)
    /\ UNCHANGED <<STANDARD_WEIGHTS, ENHANCED_WEIGHTS, cell, households>>

\* MPICalculator.calculate_household_mpi(household, weights, cutoff)
CalculateHouseholdMpi ==
    /\ call = NoCall
    /\ \E hh \in Households, w \in WeightArgs, c \in CutoffArgs :
        /\ call' = [op |-> "calculate_household_mpi",
                    household |-> hh, weights |-> w, cutoff |-> c]
        /\ household' = hh
        /\ tables' = [weights |-> w]
        /\ ret' = calculate_household_mpi(STANDARD_WEIGHTS, hh, w, c)
    /\ UNCHANGED <<STANDARD_WEIGHTS, ENHANCED_WEIGHTS, cell, households>>

\* EnhancedMPICalculator.calculate_deprivation_score(deprivations, weights,
\* housing_weights)
EnhancedCalculateDeprivationScore ==
    /\ call = NoCall
    /\ \E hh \in EnhancedHouseholds, w \in EnhancedWeightArgs, hw \in HousingWeightArgs :
        /\ call' = [op |-> "enhanced_calculate_deprivation_score",
                    deprivations |-> hh.deprivations, weights |-> w,
                    housing_weights |-> hw]
        /\ household' = hh
        /\ tables' = [weights |-> w, housing_weights |-> hw]
        /\ ret' = enhanced_calculate_deprivation_score(ENHANCED_WEIGHTS, hh.deprivations,
                                                       w, hw)
    /\ UNCHANGED <<STANDARD_WEIGHTS, ENHANCED_WEIGHTS, cell, households>>

\* EnhancedMPICalculator.calculate_household_mpi(household, weights,
\* housing_weights, cutoff)
EnhancedCalculateHouseholdMpi ==
    /\ call = NoCall
    /\ \E hh \in EnhancedHouseholds, w \in EnhancedWeightArgs, hw \in HousingWeightArgs,
          c \in EnhancedCutoffArgs :
        /\ call' = [op |-> "enhanced_calculate_household_mpi",
                    household |-> hh, weights |-> w, housing_weights |-> hw,
                    cutoff |-> c]
        /\ household' = hh
        /\ tables' = [weights |-> w, housing_weights |-> hw]
        /\ ret' = enhanced_calculate_household_mpi(ENHANCED_WEIGHTS, hh, w, hw, c)
    /\ UNCHANGED <<STANDARD_WEIGHTS, ENHANCED_WEIGHTS, cell, households>>

\* MPICalculator.calculate_population_mpi(households, weights, cutoff)
CalculatePopulationMpi ==
    /\ call = NoCall
    /\ \E hhs \in HouseholdLists, w \in PopulationWeightArgs, c \in CutoffArgs :
        /\ call' = [op |-> "calculate_population_mpi",
                    households |-> hhs, weights |-> w, cutoff |-> c]
        /\ households' = hhs
        /\ tables' = [weights |-> w]
        /\ ret' = calculate_population_mpi(STANDARD_WEIGHTS, hhs, w, c)
    /\ UNCHANGED <<STANDARD_WEIGHTS, ENHANCED_WEIGHTS, cell, household>>

\* MPICalculator.compare_standard_vs_adjusted(household, adjusted_weights)
CompareStandardVsAdjusted ==
    /\ call = NoCall
    /\ \E hh \in Households, w \in WeightArgs \ {None} :
        /\ call' = [op |-> "compare_standard_vs_adjusted",
                    household |-> hh, adjusted_weights |-> w]
        /\ household' = hh
        /\ tables' = [adjusted_weights |-> w]
        /\ ret' = compare_standard_vs_adjusted(STANDARD_WEIGHTS, hh, w)
    /\ UNCHANGED <<STANDARD_WEIGHTS, ENHANCED_WEIGHTS, cell, households>>

\* a caller constructs a DeprivationScore
ConstructDeprivationScore ==
    /\ call = NoCall
    /\ \E values \in RawDeprivationScores :
        /\ call' = [op |-> "DeprivationScore", values |-> values]
        /\ ret' = DeprivationScore(values)
    /\ UNCHANGED <<STANDARD_WEIGHTS, ENHANCED_WEIGHTS, cell, household, households, tables>>

\* the caller scores the DeprivationScore it has constructed
ScoreConstructed ==
    /\ call.op = "DeprivationScore"
    /\ ~IsError(ret)
    /\ call' = [op |-> "calculate_deprivation_score",
                deprivations |-> ret, weights |-> None]
    /\ ret' = calculate_deprivation_score(STANDARD_WEIGHTS, ret, None)
    /\ UNCHANGED <<STANDARD_WEIGHTS, ENHANCED_WEIGHTS, cell, household, households, tables>>

\* a caller constructs the five sub-vectors and, with them, an
\* EnhancedDeprivationScore
ConstructEnhancedDeprivationScore ==
    /\ call = NoCall
    /\ \E values \in RawEnhancedDeprivationScores :
        /\ call' = [op |-> "EnhancedDeprivationScore", values |-> values]
        /\ ret' = EnhancedDeprivationScore(
                      [values EXCEPT
                          !.housing = EnhancedHousingDeprivation(@),
                          !.digital = DigitalDeprivation(@),
                          !.transport = TransportDeprivation(@),
                          !.economic_security = EconomicVulnerability(@),
                          !.environment = EnvironmentalDeprivation(@)])
    /\ UNCHANGED <<STANDARD_WEIGHTS, ENHANCED_WEIGHTS, cell, household, households, tables>>

\* the caller scores the EnhancedDeprivationScore it has constructed
EnhancedScoreConstructed ==
    /\ call.op = "EnhancedDeprivationScore"
    /\ ~IsError(ret)
    /\ call' = [op |-> "enhanced_calculate_deprivation_score",
                deprivations |-> ret, weights |-> None, housing_weights |-> None]
    /\ ret' = enhanced_calculate_deprivation_score(ENHANCED_WEIGHTS, ret, None, None)
    /\ UNCHANGED <<STANDARD_WEIGHTS, ENHANCED_WEIGHTS, cell, household, households, tables>>

\* household.housing_cost_burden
HousingCostBurden ==
    /\ call = NoCall
    /\ \E hh \in EconomicHouseholds :
        /\ call' = [op |-> "housing_cost_burden", self |-> hh]
        /\ household' = hh
        /\ ret' = housing_cost_burden(hh)
    /\ UNCHANGED <<STANDARD_WEIGHTS, ENHANCED_WEIGHTS, cell, households, tables>>

\* household.transport_cost_burden
TransportCostBurden ==
    /\ call = NoCall
    /\ \E hh \in EconomicHouseholds :
        /\ call' = [op |-> "transport_cost_burden", self |-> hh]
        /\ household' = hh
        /\ ret' = transport_cost_burden(hh)
    /\ UNCHANGED <<STANDARD_WEIGHTS, ENHANCED_WEIGHTS, cell, households, tables>>

\* the two deprivation scores
NextScore ==
    \/ CalculateDeprivationScore
    \/ EnhancedCalculateDeprivationScore
    \/ Return

SpecScore == Init /\ [][NextScore]_vars

\* the household results of the two calculators
NextHousehold ==
    \/ CalculateHouseholdMpi
    \/ EnhancedCalculateHouseholdMpi
    \/ Return

SpecHousehold == Init /\ [][NextHousehold]_vars

\* the population aggregation
NextPopulation ==
    \/ CalculatePopulationMpi
    \/ Return

SpecPopulation == Init /\ [][NextPopulation]_vars

\* the weight policies
NextWeights ==
    \/ StandardWeights
    \/ GetClimateWeights
    \/ GetContextAdjustedWeights
    \/ CalculateHousingSubcomponentWeights
    \/ Return

SpecWeights == Init /\ [][NextWeights]_vars

\* the comparison of the standard and an adjusted table
NextCompare ==
    \/ CompareStandardVsAdjusted
    \/ Return

SpecCompare == Init /\ [][NextCompare]_vars

\* the construction of deprivation vectors and their scoring
NextConstruct ==
    \/ ConstructDeprivationScore
    \/ ScoreConstructed
    \/ ConstructEnhancedDeprivationScore
    \/ EnhancedScoreConstructed
    \/ Return

SpecConstruct == Init /\ [][NextConstruct]_vars

\* every call of the engine, in any sequence
NextEngine ==
    \/ GetClimateWeights
    \/ GetContextAdjustedWeights
    \/ CalculateHousingSubcomponentWeights
    \/ CalculateDeprivationScore
    \/ EnhancedCalculateDeprivationScore
    \/ CalculateHouseholdMpi
    \/ EnhancedCalculateHouseholdMpi
    \/ CalculatePopulationMpi
    \/ CompareStandardVsAdjusted
    \/ Return

SpecEngine == Init /\ [][NextEngine]_vars

\* the cost-burden properties of a household
NextBurden ==
    \/ HousingCostBurden
    \/ TransportCostBurden
    \/ Return

SpecBurden == Init /\ [][NextBurden]_vars

-----------------------------------------------------------------------------
(* Claims about the weight policies, checked under SpecWeights *)

Returned(op) == call.op = op /\ ~IsError(ret)

ValidWeightTable(t) ==
    /\ \A k \in DOMAIN t : Geq(t[k], Zero)
    /\ SumValues(t) = One

\* C1: every table returned by the standard, the climate-adjusted, the
\* enhanced and the housing sub-component policy has only non-negative
\* weights and sums to exactly 1.
C1_WeightTablesValid ==
    (\/ Returned("STANDARD_WEIGHTS")
     \/ Returned("get_climate_weights")
     \/ Returned("get_context_adjusted_weights")
     \/ Returned("calculate_housing_subcomponent_weights"))
    => ValidWeightTable(ret)

\* the enhanced policy has returned a table for a fully harsh, urban,
\* sprawling, digital context, where every adjustment is at its largest
C1_Witness ==
    /\ Returned("get_context_adjusted_weights")
    /\ call.climate_harshness = One /\ call.urbanization = One
    /\ call.sprawl_index = One /\ call.digital_economy_intensity = One
    /\ ret["electricity"] = Div(Rat(10, 100), Rat(128, 100))
    /\ ValidWeightTable(ret)

\* n hundredths
Pct(n) == Rat(n, 100)

\* a + b*x for rationals a, b, x
Lin(a, b, x) == Add(a, Mul(b, x))

\* the harshness and the urbanization get_climate_weights works with for cell c
HarshnessOf(c) == climate_harshness(c.climate)

UrbanizationOf(c) == IF c.context = None THEN Half ELSE urbanization_level(c.context)

\* C3: get_climate_weights returns, for each of the ten indicators, its
\* allocation (electricity 0.08+0.12h, cooking_fuel 0.05+0.05h, sanitation and
\* drinking_water 0.08+0.07u, flooring 0.08+0.07h, nutrition and
\* child_mortality 0.15, years_schooling and school_attendance 0.08, assets
\* 0.07) divided by 0.90 + 0.24h + 0.14u.
C3_ClimateTableFormula ==
    Returned("get_climate_weights") =>
        LET h == HarshnessOf(call.self)
            u == UrbanizationOf(call.self)
            T == Add(Pct(90), Add(Mul(Pct(24), h), Mul(Pct(14), u)))
        IN  /\ DOMAIN ret = Indicators
            /\ ret["electricity"] = Div(Lin(Pct(8), Pct(12), h), T)
            /\ ret["cooking_fuel"] = Div(Lin(Pct(5), Pct(5), h), T)
            /\ ret["sanitation"] = Div(Lin(Pct(8), Pct(7), u), T)
            /\ ret["drinking_water"] = Div(Lin(Pct(8), Pct(7), u), T)
            /\ ret["flooring"] = Div(Lin(Pct(8), Pct(7), h), T)
            /\ ret["nutrition"] = Div(Pct(15), T)
            /\ ret["child_mortality"] = Div(Pct(15), T)
            /\ ret["years_schooling"] = Div(Pct(8), T)
            /\ ret["school_attendance"] = Div(Pct(8), T)
            /\ ret["assets"] = Div(Pct(7), T)

\* a cell with harshness strictly between 0 and 1 and an urbanization other
\* than the harshness has been given its table
C3_Witness ==
    /\ Returned("get_climate_weights")
    /\ call.self.context # None
    /\ Less(Zero, HarshnessOf(call.self)) /\ Less(HarshnessOf(call.self), One)
    /\ Less(HarshnessOf(call.self), UrbanizationOf(call.self))
    /\ Less(ret["flooring"], ret["sanitation"])

\* C4: get_context_adjusted_weights returns the 14-entry base table (which
\* sums to 1) plus 0.04h on electricity, 0.02h on cooking_fuel, 0.03h on
\* housing, 0.04u on sanitation and drinking_water, 0.06*sprawl on transport
\* and 0.05*digital on digital, every entry divided once by
\* 1 + 0.09h + 0.08u + 0.06*sprawl + 0.05*digital; with the four scalars at 0
\* it returns the base table unchanged.
C4_EnhancedTableFormula ==
    Returned("get_context_adjusted_weights") =>
        LET h == call.climate_harshness
            u == call.urbanization
            s == call.sprawl_index
            g == call.digital_economy_intensity
            T == Add(One, Add(Add(Mul(Pct(9), h), Mul(Pct(8), u)),
                              Add(Mul(Pct(6), s), Mul(Pct(5), g))))
        IN  /\ DOMAIN ret = Dimensions
            /\ Cardinality(DOMAIN ret) = 14
            /\ SumValues(EnhancedWeightsTable) = One
            /\ ret["electricity"] = Div(Lin(Pct(6), Pct(4), h), T)
            /\ ret["cooking_fuel"] = Div(Lin(Pct(5), Pct(2), h), T)
            /\ ret["housing"] = Div(Lin(Pct(12), Pct(3), h), T)
            /\ ret["sanitation"] = Div(Lin(Pct(6), Pct(4), u), T)
            /\ ret["drinking_water"] = Div(Lin(Pct(6), Pct(4), u), T)
            /\ ret["transport"] = Div(Lin(Pct(8), Pct(6), s), T)
            /\ ret["digital"] = Div(Lin(Pct(8), Pct(5), g), T)
            /\ \A k \in {"nutrition", "child_mortality", "years_schooling",
                         "school_attendance"} : ret[k] = Div(Rat(75, 1000), T)
            /\ ret["assets"] = Div(Pct(5), T)
            /\ ret["economic_security"] = Div(Pct(7), T)
            /\ ret["environment"] = Div(Pct(7), T)
            /\ (h = Zero /\ u = Zero /\ s = Zero /\ g = Zero
                    => ret = EnhancedWeightsTable)

\* the enhanced policy has returned a table for a context in which harshness
\* and urbanization are both positive, so that both groups of adjustments
\* entered the single total
C4_Witness ==
    /\ Returned("get_context_adjusted_weights")
    /\ call.climate_harshness = Half /\ call.urbanization = One
    /\ call.sprawl_index = Zero /\ call.digital_economy_intensity = One
    /\ ret["housing"] = Div(Rat(135, 1000), Rat(1175, 1000))

\* C5: calculate_housing_subcomponent_weights(h, r) returns structure =
\* (0.40+0.10h)/T, tenure = 0.30/T, cost = (0.30+0.15r)/T with
\* T = 1 + 0.10h + 0.15r; at h = r = 0 this is the default split 0.4/0.3/0.3.
C5_HousingSubWeightsFormula ==
    Returned("calculate_housing_subcomponent_weights") =>
        LET h == call.climate_harshness
            r == call.rental_market_tightness
            T == Add(One, Add(Mul(Pct(10), h), Mul(Pct(15), r)))
        IN  /\ DOMAIN ret = {"structure", "tenure", "cost"}
            /\ ret.structure = Div(Lin(Pct(40), Pct(10), h), T)
            /\ ret.tenure = Div(Pct(30), T)
            /\ ret.cost = Div(Lin(Pct(30), Pct(15), r), T)
            /\ (h = Zero /\ r = Zero =>
                    ret = [structure |-> Rat(4, 10), tenure |-> Rat(3, 10),
                           cost |-> Rat(3, 10)])

\* the sub-component policy has returned a split for a mild climate and a
\* fully tight rental market
C5_Witness ==
    /\ Returned("calculate_housing_subcomponent_weights")
    /\ call.climate_harshness = Zero /\ call.rental_market_tightness = One
    /\ ret.cost = Rat(45, 115) /\ ret.tenure = Rat(30, 115)

-----------------------------------------------------------------------------
(* Claims about the deprivation scores, checked under SpecScore *)

\* C2: the standard table has exactly ten entries; nutrition,
\* child_mortality, years_schooling and school_attendance weigh 1/6 each, the
\* six living-standard indicators 1/18 each, so Health, Education and Living
\* Standards total 1/3 each; and it is the table calculate_deprivation_score
\* uses when no weights argument is given.
C2_StandardTable ==
    LET W == STANDARD_WEIGHTS
        living == {"electricity", "sanitation", "drinking_water", "flooring",
                   "cooking_fuel", "assets"}
    IN  /\ DOMAIN W = {"nutrition", "child_mortality", "years_schooling",
                       "school_attendance"} \cup living
        /\ Cardinality(DOMAIN W) = 10
        /\ \A k \in {"nutrition", "child_mortality", "years_schooling",
                     "school_attendance"} : W[k] = Rat(1, 6)
        /\ \A k \in living : W[k] = Rat(1, 18)
        /\ Add(W["nutrition"], W["child_mortality"]) = Rat(1, 3)
        /\ Add(W["years_schooling"], W["school_attendance"]) = Rat(1, 3)
        /\ SumOver(W, living) = Rat(1, 3)
        /\ (Returned("calculate_deprivation_score") /\ call.weights = None =>
                LET d == call.deprivations
                IN  ret =
                      Add(Mul(Rat(1, 6),
                              Add(Add(d["nutrition"], d["child_mortality"]),
                                  Add(d["years_schooling"], d["school_attendance"]))),
                          Mul(Rat(1, 18),
                              Add(Add(Add(d["electricity"], d["sanitation"]),
                                      Add(d["drinking_water"], d["flooring"])),
                                  Add(d["cooking_fuel"], d["assets"])))))

\* a household deprived in nutrition and electricity only has been scored
\* without a weights argument
C2_Witness ==
    /\ Returned("calculate_deprivation_score")
    /\ call.weights = None
    /\ call.deprivations = DeprivationScoreOf({"nutrition", "electricity"}, One)
    /\ ret = Rat(4, 18)

\* C6: MPICalculator.calculate_deprivation_score returns the sum, over the
\* indicators that are keys of the weight table, of weight times deprivation
\* value; an indicator absent from the table contributes nothing.
C6_ScoreIsWeightedSum ==
    Returned("calculate_deprivation_score") =>
        LET w == IF call.weights = None THEN STANDARD_WEIGHTS ELSE call.weights
            d == call.deprivations
            term(i) == IF i \in DOMAIN w THEN Mul(w[i], d[i]) ELSE Zero
        IN  ret =
              Add(Add(Add(term("nutrition"), term("child_mortality")),
                      Add(term("years_schooling"), term("school_attendance"))),
                  Add(Add(Add(term("electricity"), term("sanitation")),
                          Add(term("drinking_water"), term("flooring"))),
                      Add(term("cooking_fuel"), term("assets"))))

\* a household deprived in nutrition and sanitation has been scored with a
\* table over nutrition and electricity only: sanitation added nothing
C6_Witness ==
    /\ Returned("calculate_deprivation_score")
    /\ call.weights # None
    /\ DOMAIN call.weights = {"nutrition", "electricity"}
    /\ call.deprivations = DeprivationScoreOf({"nutrition", "sanitation"}, One)
    /\ ret = Rat(33, 100)

\* C7: EnhancedMPICalculator.calculate_deprivation_score returns the sum of
\* weight*value over the nine simple indicators, plus weights[housing] *
\* (sw.structure*structure_quality + sw.tenure*tenure_security +
\* sw.cost*cost_burden), plus the digital, transport, economic_security and
\* environment weights times the fixed composite of each (digital: mean of 3;
\* transport: 0.4 no_access + 0.3 commute + 0.3 cost; economic: mean of 4;
\* environment: 0.3 air + 0.3 heat + 0.25 flood + 0.15 toxic); with the
\* housing sub-weights omitted it is the result for 0.4/0.3/0.3, that is for
\* housing.composite_score.
C7_EnhancedScoreFormula ==
    Returned("enhanced_calculate_deprivation_score") =>
        LET w == IF call.weights = None THEN ENHANCED_WEIGHTS ELSE call.weights
            d == call.deprivations
            sw == IF call.housing_weights = None
                  THEN [structure |-> Rat(4, 10), tenure |-> Rat(3, 10), cost |-> Rat(3, 10)]
                  ELSE call.housing_weights
            simple ==
                Add(Add(Add(Mul(w["nutrition"], d["nutrition"]),
                            Mul(w["child_mortality"], d["child_mortality"])),
                        Add(Mul(w["years_schooling"], d["years_schooling"]),
                            Mul(w["school_attendance"], d["school_attendance"]))),
                    Add(Add(Add(Mul(w["electricity"], d["electricity"]),
                                Mul(w["sanitation"], d["sanitation"])),
                            Add(Mul(w["drinking_water"], d["drinking_water"]),
                                Mul(w["cooking_fuel"], d["cooking_fuel"]))),
                        Mul(w["assets"], d["assets"])))
            housing ==
                Add(Add(Mul(sw.structure, d.housing.structure_quality),
                        Mul(sw.tenure, d.housing.tenure_security)),
                    Mul(sw.cost, d.housing.cost_burden))
            digital ==
                Div(Add(Add(d.digital.no_internet_access, d.digital.no_device),
                        d.digital.digital_illiteracy), Rat(3, 1))
            transport ==
                Add(Add(Mul(Rat(4, 10), d.transport.no_transport_access),
                        Mul(Rat(3, 10), d.transport.excessive_commute_time)),
                    Mul(Rat(3, 10), d.transport.transport_cost_burden))
            economic ==
                Div(Add(Add(d.economic_security.income_volatility,
                            d.economic_security.no_emergency_savings),
                        Add(d.economic_security.no_social_protection,
                            d.economic_security.high_debt_burden)), Rat(4, 1))
            environment ==
                Add(Add(Mul(Rat(3, 10), d.environment.poor_air_quality),
                        Mul(Rat(3, 10), d.environment.heat_exposure)),
                    Add(Mul(Rat(25, 100), d.environment.flood_risk),
                        Mul(Rat(15, 100), d.environment.toxic_proximity)))
            rest ==
                Add(Add(Mul(w["digital"], digital), Mul(w["transport"], transport)),
                    Add(Mul(w["economic_security"], economic),
                        Mul(w["environment"], environment)))
        IN  /\ ret = Add(Add(simple, Mul(w["housing"], housing)), rest)
            /\ (call.housing_weights = None =>
                    ret = Add(Add(simple,
                                  Mul(w["housing"], housing_composite_score(d.housing))),
                              rest))

\* a household deprived in housing cost and in transport access has been
\* scored with the base table and the sub-weights of a tight rental market
C7_Witness ==
    /\ Returned("enhanced_calculate_deprivation_score")
    /\ call.weights = None
    /\ call.housing_weights = calculate_housing_subcomponent_weights(Zero, One)
    /\ call.deprivations.housing.cost_burden = One
    /\ call.deprivations.transport.no_transport_access = One
    /\ ret = Add(Mul(Rat(12, 100), Rat(45, 115)), Mul(Rat(8, 100), Rat(4, 10)))

-----------------------------------------------------------------------------
(* Claims about household results, checked under SpecHousehold *)

HouseholdResult ==
    Returned("calculate_household_mpi") \/ Returned("enhanced_calculate_household_mpi")

\* the cutoff a household result is decided against: the caller's, or 0.33
CutoffUsed == IF call.cutoff = None THEN Rat(33, 100) ELSE call.cutoff

\* C8: every household result of the standard and of the enhanced
\* calculator has is_poor = (deprivation_score >= cutoff), the cutoff being
\* the caller's when given and 0.33 otherwise; a score equal to the cutoff is
\* poor.
C8_ClassificationConsistent ==
    HouseholdResult =>
        /\ ret.is_poor = Leq(CutoffUsed, ret.deprivation_score)
        /\ (ret.deprivation_score = CutoffUsed => ret.is_poor)

\* the standard calculator has classified a household whose score equals the
\* caller's cutoff 1/3
C8_Witness ==
    /\ Returned("calculate_household_mpi")
    /\ call.cutoff = Rat(1, 3)
    /\ ret.deprivation_score = Rat(1, 3)
    /\ ret.is_poor

\* C9: in every household result, intensity is the deprivation score when
\* is_poor is true and 0 when it is false, both decided against the same
\* cutoff.
C9_IntensityMatchesClassification ==
    HouseholdResult =>
        /\ ret.intensity = (IF ret.is_poor THEN ret.deprivation_score ELSE Zero)
        /\ ret.intensity =
             (IF Leq(CutoffUsed, ret.deprivation_score) THEN ret.deprivation_score ELSE Zero)

\* the standard calculator has classified, against the caller's cutoff 0, a
\* household whose positive score is below 0.33
C9_Witness ==
    /\ Returned("calculate_household_mpi")
    /\ call.cutoff = Zero
    /\ Less(Zero, ret.deprivation_score) /\ Less(ret.deprivation_score, Rat(33, 100))
    /\ ret.is_poor
    /\ ret.intensity = ret.deprivation_score

-----------------------------------------------------------------------------
(* Claims about the population aggregation, checked under SpecPopulation *)

\* the score of the i-th household of the call's collection
ScoreAt(i) ==
    calculate_deprivation_score(STANDARD_WEIGHTS, call.households[i].deprivations,
                                call.weights)

\* the positions of the households whose score reaches the cutoff
PoorPositions == {i \in 1..Len(call.households) : Leq(CutoffUsed, ScoreAt(i))}

\* C10: for a non-empty collection, calculate_population_mpi returns
\* num_poor = the number of households with deprivation_score >= cutoff,
\* total = the number of households, headcount_ratio = num_poor / total and
\* intensity = the mean of the scores of the poor households only (0 when
\* there is none).
C10_PopulationCounts ==
    Returned("calculate_population_mpi") /\ call.households # <<>> =>
        LET n == Len(call.households)
            np == Cardinality(PoorPositions)
        IN  /\ ret.num_poor = np
            /\ ret.total_population = n
            /\ ret.headcount_ratio = Rat(np, n)
            /\ ret.intensity =
                 (IF np = 0 THEN Zero
                  ELSE Div(SumOver([i \in 1..n |-> ScoreAt(i)], PoorPositions),
                           Rat(np, 1)))

\* a collection of three households, one of them poor, has been aggregated:
\* the intensity is that household's score
C10_Witness ==
    /\ Returned("calculate_population_mpi")
    /\ Len(call.households) = 3
    /\ call.weights = None /\ call.cutoff = None
    /\ ret.num_poor = 1
    /\ ret.headcount_ratio = Rat(1, 3)
    /\ ret.intensity = Rat(1, 2)
    /\ \E i \in 1..3 : Less(Zero, ScoreAt(i)) /\ Less(ScoreAt(i), Rat(33, 100))

\* C11: for every collection of households scored with a normalized weight
\* table and any cutoff, the population result has 0 <= headcount_ratio <= 1,
\* 0 <= intensity <= 1 and MPI = headcount_ratio * intensity exactly.
C11_AggregationBounds ==
    Returned("calculate_population_mpi") =>
        /\ Leq(Zero, ret.headcount_ratio) /\ Leq(ret.headcount_ratio, One)
        /\ Leq(Zero, ret.intensity) /\ Leq(ret.intensity, One)
        /\ ret.MPI = Mul(ret.headcount_ratio, ret.intensity)

\* some but not all households are poor, with an intensity strictly inside (0,1)
C11_Witness ==
    /\ Returned("calculate_population_mpi")
    /\ Less(Zero, ret.headcount_ratio) /\ Less(ret.headcount_ratio, One)
    /\ Less(Zero, ret.intensity) /\ Less(ret.intensity, One)
    /\ ret.MPI = Mul(ret.headcount_ratio, ret.intensity)

\* C12: calculate_population_mpi of an empty collection does not fail and
\* returns MPI = 0, headcount_ratio = 0, intensity = 0, num_poor = 0 and
\* total_population = 0, whatever weights and cutoff are passed.
C12_EmptyPopulationZero ==
    (call.op = "calculate_population_mpi" /\ call.households = <<>>) =>
        /\ ~IsError(ret)
        /\ ret.MPI = Zero
        /\ ret.headcount_ratio = Zero
        /\ ret.intensity = Zero
        /\ ret.num_poor = 0
        /\ ret.total_population = 0

\* the empty collection scored with a caller's table and an explicit cutoff
C12_Witness ==
    /\ call.op = "calculate_population_mpi"
    /\ call.households = <<>>
    /\ call.weights # None
    /\ call.cutoff # None
    /\ ~IsError(ret)
    /\ ret.MPI = Zero /\ ret.total_population = 0

\* C13: compare_standard_vs_adjusted returns as 'standard' the household
\* result under the standard table and the default cutoff, as 'adjusted' the
\* household result under adjusted_weights and the default cutoff, as score
\* difference exactly adjusted score - standard score, and
\* classification_changed is true exactly when the two is_poor flags differ.
C13_CompareStandardVsAdjusted ==
    Returned("compare_standard_vs_adjusted") =>
        LET standard ==
                calculate_household_mpi(STANDARD_WEIGHTS, call.household, None, None)
            adjusted ==
                calculate_household_mpi(STANDARD_WEIGHTS, call.household,
                                        call.adjusted_weights, POVERTY_CUTOFF)
        IN  /\ ret.standard = standard
            /\ ret.standard.deprivation_score =
                   WeightedSum(StandardWeightsTable, call.household.deprivations, Indicators)
            /\ ret.standard.is_poor =
                   Geq(ret.standard.deprivation_score, POVERTY_CUTOFF)
            /\ ret.adjusted = adjusted
            /\ ret.adjusted.deprivation_score =
                   WeightedSum(call.adjusted_weights, call.household.deprivations,
                               DOMAIN call.adjusted_weights)
            /\ ret.adjusted.is_poor =
                   Geq(ret.adjusted.deprivation_score, POVERTY_CUTOFF)
            /\ ret.difference.deprivation_score =
                   Sub(ret.adjusted.deprivation_score, ret.standard.deprivation_score)
            /\ ret.difference.classification_changed =
                   (ret.standard.is_poor # ret.adjusted.is_poor)

\* a household whose adjusted score is lower than its standard score and
\* whose classification changes
C13_Witness ==
    /\ Returned("compare_standard_vs_adjusted")
    /\ Less(ret.difference.deprivation_score, Zero)
    /\ ret.difference.classification_changed
    /\ ret.standard.is_poor /\ ~ret.adjusted.is_poor

-----------------------------------------------------------------------------
(* Claims about the range of the scores, checked under SpecScore *)

AllComponents(d, v) ==
    \A k \in DOMAIN d :
        IF k \in DOMAIN SubFields
        THEN \A f \in DOMAIN d[k] : d[k][f] = v
        ELSE d[k] = v

InUnitInterval(x) == Leq(Zero, x) /\ Leq(x, One)

\* C14: for every valid deprivation vector and every weight table produced
\* by a weight policy (in the enhanced calculator also every housing
\* sub-weight table, computed or defaulted), the deprivation score lies in
\* [0,1], is 0 when every component is 0 and 1 when every component is 1.
C14_ScoreInUnitInterval ==
    /\ (Returned("calculate_deprivation_score")
            /\ call.weights \in {None} \cup ClimateWeightTables) =>
        /\ InUnitInterval(ret)
        /\ AllComponents(call.deprivations, Zero) => ret = Zero
        /\ AllComponents(call.deprivations, One) => ret = One
    /\ (Returned("enhanced_calculate_deprivation_score")
            /\ call.weights \in {None} \cup ContextWeightTables) =>
        /\ InUnitInterval(ret)
        /\ AllComponents(call.deprivations, Zero) => ret = Zero
        /\ AllComponents(call.deprivations, One) => ret = One

\* a fully deprived enhanced vector scored with a context-adjusted table and
\* a computed housing sub-weight table
C14_Witness ==
    /\ Returned("enhanced_calculate_deprivation_score")
    /\ call.weights \in ContextWeightTables
    /\ call.housing_weights # None
    /\ AllComponents(call.deprivations, One)
    /\ ret = One

\* C19: a score computed with a caller's table whose weights do not sum to 1
\* is never the score under the unnormalized weights: the call fails, or the
\* score is the one under the renormalized table.
C19_NoUnnormalizedScore ==
    /\ (Returned("calculate_deprivation_score")
            /\ call.weights # None /\ SumValues(call.weights) # One) =>
        ret = WeightedSum(Normalize(call.weights), call.deprivations,
                          DOMAIN call.weights)
    /\ (Returned("enhanced_calculate_deprivation_score")
            /\ call.weights # None /\ SumValues(call.weights) # One) =>
        ret = enhanced_calculate_deprivation_score(ENHANCED_WEIGHTS,
                  call.deprivations, Normalize(call.weights), call.housing_weights)

-----------------------------------------------------------------------------
(* Claims about the constructors, checked under SpecConstruct *)

\* the scalar components of a vector (of either kind) handed to a constructor
ScalarsOf(d) ==
    {d[k] : k \in {x \in DOMAIN d : IsFloat(d[x])}}
        \cup UNION {{d[k][f] : f \in DOMAIN d[k]} :
                        k \in {x \in DOMAIN d : ~IsFloat(d[x])}}

AllInRange(d) == \A x \in ScalarsOf(d) : InUnitInterval(x)

\* C15: constructing a core DeprivationScore succeeds when all ten values
\* lie in [0,1], 0 and 1 included, and fails with a validation error when
\* any value is below 0 or above 1; so no DeprivationScore with a value
\* outside [0,1] is ever scored.
C15_DeprivationScoreValidated ==
    /\ call.op = "DeprivationScore" =>
        /\ AllInRange(call.values) => ret = call.values
        /\ ~AllInRange(call.values) => ret = Raise("ValueError")
    /\ (call.op = "calculate_deprivation_score") => AllInRange(call.deprivations)

\* a vector holding both ends of the range, 0 and 1, is accepted
C15_Witness ==
    /\ call.op = "DeprivationScore"
    /\ \E i, j \in Indicators : call.values[i] = Zero /\ call.values[j] = One
    /\ ret = call.values

\* a vector with a value below 0 is rejected
C15_WitnessRejected ==
    /\ call.op = "DeprivationScore"
    /\ \E i \in Indicators : Less(call.values[i], Zero)
    /\ ret = Raise("ValueError")

\* C16: an out-of-range scalar is rejected at construction for every scalar
\* of the enhanced vector, the nine simple indicators and every component of
\* the housing, digital, transport, economic and environmental sub-vectors;
\* so the enhanced calculate_deprivation_score is never reached with an
\* out-of-range component.
C16_EnhancedRangeRejected ==
    /\ (call.op = "EnhancedDeprivationScore" /\ ~AllInRange(call.values)) =>
        IsError(ret)
    /\ (call.op = "enhanced_calculate_deprivation_score") =>
        AllInRange(call.deprivations)

-----------------------------------------------------------------------------
(* Claims about missing cell data, checked under SpecWeights *)

\* C17: get_climate_weights on a cell without a climate profile fails with
\* an error and returns no weight table, whether the cell has context
\* factors or not.
C17_NoClimateFails ==
    (call.op = "get_climate_weights" /\ call.self.climate = None) =>
        ret = Raise("ValueError")

\* a cell that has context factors but no climate profile
C17_Witness ==
    /\ call.op = "get_climate_weights"
    /\ call.self.climate = None
    /\ call.self.context # None
    /\ IsError(ret)

\* a cell that has neither
C17_WitnessNoContext ==
    /\ call.op = "get_climate_weights"
    /\ call.self.climate = None
    /\ call.self.context = None
    /\ IsError(ret)

\* C18: get_climate_weights on a cell with a climate profile but without
\* context factors raises an error at once; it does not return a table
\* computed from a substituted urbanization value.
C18_NoContextFails ==
    (call.op = "get_climate_weights"
        /\ call.self.climate # None /\ call.self.context = None) =>
        IsError(ret)

-----------------------------------------------------------------------------
(* Monotonicity of the weight policies, checked under SpecWeights *)

\* table t2 is strictly greater than table t1 on every key of keys
GreaterOn(t2, t1, keys) == \A k \in keys : Less(t1[k], t2[k])

HarshnessKeys == {"electricity", "cooking_fuel"}

UrbanizationKeys == {"sanitation", "drinking_water"}

\* C20: in both weight policies, of two evaluations that differ only in
\* harshness the one with the greater harshness has the strictly greater
\* electricity and cooking_fuel weights, before normalization and as shares
\* of the returned table; of two evaluations that differ only in
\* urbanization the one with the greater urbanization has the strictly
\* greater sanitation and drinking_water weights, in both senses.
C20_PolicyMonotone ==
    /\ Returned("get_climate_weights") =>
        LET c == call.self
            h == HarshnessOf(c)
            u == UrbanizationOf(c)
        IN  /\ \A cl \in ClimateProfiles :
                LET h2 == climate_harshness(cl)
                IN  Less(h, h2) =>
                        /\ GreaterOn(ClimateAllocations(h2, u),
                                     ClimateAllocations(h, u), HarshnessKeys)
                        /\ GreaterOn(get_climate_weights([c EXCEPT !.climate = cl]),
                                     ret, HarshnessKeys)
            /\ \A cx \in ContextFactorsSet \cup {None} :
                LET c2 == [c EXCEPT !.context = cx]
                    u2 == UrbanizationOf(c2)
                IN  Less(u, u2) =>
                        /\ GreaterOn(ClimateAllocations(h, u2),
                                     ClimateAllocations(h, u), UrbanizationKeys)
                        /\ GreaterOn(get_climate_weights(c2), ret, UrbanizationKeys)
    /\ Returned("get_context_adjusted_weights") =>
        LET h == call.climate_harshness
            u == call.urbanization
            s == call.sprawl_index
            g == call.digital_economy_intensity
            r == call.rental_market_tightness
        IN  /\ \A h2 \in Scalars :
                Less(h, h2) =>
                    /\ GreaterOn(ContextAllocations(ENHANCED_WEIGHTS, h2, u, s, g, r),
                                 ContextAllocations(ENHANCED_WEIGHTS, h, u, s, g, r),
                                 HarshnessKeys)
                    /\ GreaterOn(get_context_adjusted_weights(ENHANCED_WEIGHTS,
                                                              h2, u, s, g, r),
                                 ret, HarshnessKeys)
            /\ \A u2 \in Scalars :
                Less(u, u2) =>
                    /\ GreaterOn(ContextAllocations(ENHANCED_WEIGHTS, h, u2, s, g, r),
                                 ContextAllocations(ENHANCED_WEIGHTS, h, u, s, g, r),
                                 UrbanizationKeys)
                    /\ GreaterOn(get_context_adjusted_weights(ENHANCED_WEIGHTS,
                                                              h, u2, s, g, r),
                                 ret, UrbanizationKeys)

\* a cell's table, and the table of the same cell under a harsher climate
\* with a strictly greater electricity share
C20_Witness ==
    /\ Returned("get_climate_weights")
    /\ call.self.context # None
    /\ \E cl \in ClimateProfiles :
        /\ Less(HarshnessOf(call.self), climate_harshness(cl))
        /\ Less(ret["electricity"],
                get_climate_weights([call.self EXCEPT !.climate = cl])["electricity"])
        /\ Less(ret["cooking_fuel"],
                get_climate_weights([call.self EXCEPT !.climate = cl])["cooking_fuel"])

-----------------------------------------------------------------------------
(* The universal indicators of the climate policy, checked under SpecWeights *)

UniversalKeys ==
    {"nutrition", "child_mortality", "years_schooling", "school_attendance", "assets"}

\* the allocation of a universal indicator: 0.15, 0.15, 0.08, 0.08, 0.07
UniversalAllocation(k) ==
    CASE k \in {"nutrition", "child_mortality"} -> Pct(15)
      [] k \in {"years_schooling", "school_attendance"} -> Pct(8)
      [] k = "assets" -> Pct(7)

\* C21 as stated: in the table returned by the climate policy the weights of
\* nutrition, child_mortality, years_schooling, school_attendance and assets
\* have the same value for every harshness and urbanization in [0,1].
C21_UniversalWeightsFixed ==
    Returned("get_climate_weights") =>
        \A k \in UniversalKeys, h2 \in Scalars, u2 \in Scalars :
            ClimateWeights(h2, u2)[k] = ret[k]

\* C21 amended: the allocations of the universal indicators before the
\* normalization are fixed (0.15, 0.15, 0.08, 0.08, 0.07) for every harshness
\* h and urbanization u; in the returned table each is its allocation divided
\* by the total 0.90 + 0.24h + 0.14u, so the universal weights keep their
\* proportions to one another but are not the same for every h and u.
C21_UniversalAllocationsFixed ==
    Returned("get_climate_weights") =>
        LET h == HarshnessOf(call.self)
            u == UrbanizationOf(call.self)
            total == Add(Pct(90), Add(Mul(Pct(24), h), Mul(Pct(14), u)))
        IN  \A k \in UniversalKeys :
                /\ ClimateAllocations(h, u)[k] = UniversalAllocation(k)
                /\ ret[k] = Div(UniversalAllocation(k), total)
                /\ Mul(ret[k], UniversalAllocation("nutrition")) =
                       Mul(ret["nutrition"], UniversalAllocation(k))

\* a harsh cell, whose nutrition weight is below that of the mildest rural
\* cell (0.15 / 0.90)
C21_Witness ==
    /\ Returned("get_climate_weights")
    /\ Less(Zero, HarshnessOf(call.self))
    /\ Less(ret["nutrition"], Div(Pct(15), Pct(90)))

-----------------------------------------------------------------------------
(* Scenario C, checked under SpecCompare *)

\* the household of scenario C: deprived in electricity, sanitation, flooring
\* and cooking_fuel, not deprived in the other six indicators
ScenarioC ==
    [deprivations |->
        DeprivationScoreOf({"electricity", "sanitation", "flooring", "cooking_fuel"}, One)]

\* C22: the household of scenario C scores exactly 4/18 under the standard
\* table and is not poor at the cutoff 0.33; under the climate table for
\* harshness 1 and urbanization 0 it scores exactly
\* (0.20 + 0.10 + 0.08 + 0.15) / 1.14 and is poor; so
\* compare_standard_vs_adjusted reports classification_changed = true.
C22_ScenarioC ==
    (Returned("compare_standard_vs_adjusted")
        /\ call.household = ScenarioC
        /\ call.adjusted_weights = ClimateWeights(One, Zero)) =>
        /\ ret.standard.deprivation_score = Rat(4, 18)
        /\ ~ret.standard.is_poor
        /\ Less(ret.standard.deprivation_score, Pct(33))
        /\ ret.adjusted.deprivation_score =
               Div(Add(Add(Pct(20), Pct(10)), Add(Pct(8), Pct(15))), Pct(114))
        /\ ret.adjusted.is_poor
        /\ ret.difference.classification_changed

\* the comparison of scenario C under the table of a harsh rural cell
C22_Witness ==
    /\ Returned("compare_standard_vs_adjusted")
    /\ call.household = ScenarioC
    /\ call.adjusted_weights = ClimateWeights(One, Zero)
    /\ call.adjusted_weights \in
           {get_climate_weights(c) : c \in {x \in Cells : x.climate # None}}
    /\ household = ScenarioC
    /\ ret.difference.classification_changed

-----------------------------------------------------------------------------
(* The frame of the engine, checked under SpecEngine *)

\* C23: the engine never mutates its inputs or its base tables: after any
\* sequence of calls to get_climate_weights, get_context_adjusted_weights,
\* calculate_housing_subcomponent_weights, calculate_deprivation_score,
\* calculate_household_mpi, calculate_population_mpi and
\* compare_standard_vs_adjusted, every household, deprivation vector and
\* caller-supplied weight table is as it was handed in and STANDARD_WEIGHTS
\* and ENHANCED_WEIGHTS hold their original values.
C23_NoMutation ==
    /\ STANDARD_WEIGHTS = StandardWeightsTable
    /\ ENHANCED_WEIGHTS = EnhancedWeightsTable
    /\ call.op = "get_climate_weights" => cell = call.self
    /\ call.op \in {"calculate_deprivation_score",
                    "enhanced_calculate_deprivation_score"} =>
        /\ household.deprivations = call.deprivations
        /\ tables.weights = call.weights
    /\ call.op \in {"calculate_household_mpi", "enhanced_calculate_household_mpi"} =>
        /\ household = call.household
        /\ tables.weights = call.weights
    /\ call.op \in {"enhanced_calculate_deprivation_score",
                    "enhanced_calculate_household_mpi"} =>
        tables.housing_weights = call.housing_weights
    /\ call.op = "calculate_population_mpi" =>
        /\ households = call.households
        /\ tables.weights = call.weights
    /\ call.op = "compare_standard_vs_adjusted" =>
        /\ household = call.household
        /\ tables.adjusted_weights = call.adjusted_weights

\* the context policy has returned a table that differs from the base table,
\* and the base table is as it was
C23_Witness ==
    /\ Returned("get_context_adjusted_weights")
    /\ call.climate_harshness = One
    /\ ret # EnhancedWeightsTable
    /\ ENHANCED_WEIGHTS = EnhancedWeightsTable

-----------------------------------------------------------------------------
(* Rental tightness and the top-level table, checked under SpecWeights *)

\* C24: rental_market_tightness does not influence the top-level enhanced
\* table: two calls of get_context_adjusted_weights that agree on harshness,
\* urbanization, sprawl and digital intensity return the same table for any
\* two rental tightness values; rental tightness changes the table of
\* calculate_housing_subcomponent_weights only.
C24_RentalTightnessNonInterference ==
    /\ Returned("get_context_adjusted_weights") =>
        \A r2 \in Scalars :
            get_context_adjusted_weights(ENHANCED_WEIGHTS, call.climate_harshness,
                call.urbanization, call.sprawl_index,
                call.digital_economy_intensity, r2) = ret
    /\ Returned("calculate_housing_subcomponent_weights") =>
        \A r2 \in Scalars \ {call.rental_market_tightness} :
            calculate_housing_subcomponent_weights(call.climate_harshness, r2) # ret

\* a call with rental tightness 1 that returns the table of rental tightness 0
C24_Witness ==
    /\ Returned("get_context_adjusted_weights")
    /\ call.rental_market_tightness = One
    /\ ret = get_context_adjusted_weights(ENHANCED_WEIGHTS, call.climate_harshness,
                 call.urbanization, call.sprawl_index,
                 call.digital_economy_intensity, Zero)

-----------------------------------------------------------------------------
(* The cost-burden properties, checked under SpecBurden *)

\* C25: for every EnhancedHouseholdData in which monthly_income and a cost
\* figure are both present, the corresponding cost-burden property returns
\* cost / income, a non-negative number, and not an absent value.
C25_CostBurdenDerivable ==
    /\ (call.op = "housing_cost_burden"
            /\ call.self.monthly_income # None
            /\ call.self.monthly_housing_cost # None) =>
        /\ ret # None
        /\ Mul(ret, call.self.monthly_income) = call.self.monthly_housing_cost
        /\ Geq(ret, Zero)
    /\ (call.op = "transport_cost_burden"
            /\ call.self.monthly_income # None
            /\ call.self.monthly_transport_cost # None) =>
        /\ ret # None
        /\ Mul(ret, call.self.monthly_income) = call.self.monthly_transport_cost
        /\ Geq(ret, Zero)

\* C25 for the households with a positive income, for which cost / income
\* exists: housing_cost_burden returns cost / income and not an absent value
C25_PositiveIncome ==
    (call.op = "housing_cost_burden"
        /\ call.self.monthly_income # None /\ Less(Zero, call.self.monthly_income)
        /\ call.self.monthly_housing_cost # None) =>
        /\ ret # None
        /\ ret = Div(call.self.monthly_housing_cost, call.self.monthly_income)

-----------------------------------------------------------------------------
(* The scalars of the climate policy, checked under SpecWeights *)

\* C26: the harshness and the urbanization that get_climate_weights feeds
\* into the weight formulas lie in [0,1] for every ClimateProfile and
\* ContextFactors the cell can be constructed with.
C26_InputsClamped ==
    Returned("get_climate_weights") =>
        /\ InUnitInterval(HarshnessOf(call.self))
        /\ InUnitInterval(UrbanizationOf(call.self))

\* the harshness part of C26: climate_harshness is clipped to [0,1]
C26_HarshnessClamped ==
    Returned("get_climate_weights") => InUnitInterval(HarshnessOf(call.self))

-----------------------------------------------------------------------------
(* Algebra of the aggregation, checked under SpecPopulation *)

\* the list q with the elements at positions i and j exchanged
Swapped(q, i, j) ==
    [k \in 1..Len(q) |-> IF k = i THEN q[j] ELSE IF k = j THEN q[i] ELSE q[k]]

ScoreSum(P) == SumOver([i \in 1..Len(call.households) |-> ScoreAt(i)], P)

\* C28: for every non-empty collection, MPI * total is the sum of the
\* deprivation scores of the poor households, and therefore
\* MPI <= avg_deprivation_score and MPI <= headcount_ratio (the scores being
\* in [0,1]).
C28_MpiIsMeanPoorScore ==
    (Returned("calculate_population_mpi") /\ call.households # <<>>) =>
        /\ Mul(ret.MPI, Rat(ret.total_population, 1)) = ScoreSum(PoorPositions)
        /\ Leq(ret.MPI, ret.avg_deprivation_score)
        /\ Leq(ret.MPI, ret.headcount_ratio)

\* poor and non-poor households with positive scores: the MPI is strictly
\* below the mean score and strictly below the headcount ratio
C28_Witness ==
    /\ Returned("calculate_population_mpi")
    /\ call.households # <<>>
    /\ Less(Zero, ret.MPI)
    /\ Less(ret.MPI, ret.avg_deprivation_score)
    /\ Less(ret.MPI, ret.headcount_ratio)
    /\ Mul(ret.MPI, Rat(ret.total_population, 1)) = ScoreSum(PoorPositions)

\* C29: a caller's cutoff of 0 is honored and not replaced by 0.33: every
\* household is poor with intensity equal to its score, so for a non-empty
\* collection headcount_ratio = 1, num_poor = total and
\* MPI = intensity = avg_deprivation_score; and the caller's cutoff, whatever
\* it is, decides both the classification and the intensity of every
\* household of the collection.
C29_ZeroCutoffHonored ==
    /\ (Returned("calculate_population_mpi")
            /\ call.households # <<>> /\ call.cutoff = Zero) =>
        /\ ret.headcount_ratio = One
        /\ ret.num_poor = ret.total_population
        /\ ret.MPI = ret.intensity
        /\ ret.intensity = ret.avg_deprivation_score
    /\ (Returned("calculate_population_mpi")
            /\ call.households # <<>> /\ call.cutoff # None) =>
        LET P == {i \in 1..Len(call.households) : Leq(call.cutoff, ScoreAt(i))}
        IN  /\ ret.num_poor = Cardinality(P)
            /\ Mul(ret.intensity, Rat(ret.num_poor, 1)) = ScoreSum(P)

\* a collection with a household of score 0 and a mean score below 0.33,
\* aggregated with cutoff 0: every household is poor
C29_Witness ==
    /\ Returned("calculate_population_mpi")
    /\ call.cutoff = Zero
    /\ Len(call.households) >= 2
    /\ \E i \in 1..Len(call.households) : ScoreAt(i) = Zero
    /\ ret.num_poor = ret.total_population
    /\ Less(Zero, ret.MPI) /\ Less(ret.MPI, POVERTY_CUTOFF)

\* C30: whenever num_poor > 0 the population intensity is at least the cutoff
\* used; and for a positive cutoff, intensity = 0 iff num_poor = 0 iff MPI = 0.
C30_IntensityAtLeastCutoff ==
    Returned("calculate_population_mpi") =>
        /\ ret.num_poor > 0 => Leq(CutoffUsed, ret.intensity)
        /\ Less(Zero, CutoffUsed) =>
            /\ (ret.intensity = Zero) = (ret.num_poor = 0)
            /\ (ret.num_poor = 0) = (ret.MPI = Zero)

\* some but not all households reach a positive cutoff
C30_Witness ==
    /\ Returned("calculate_population_mpi")
    /\ Less(Zero, CutoffUsed)
    /\ ret.num_poor > 0 /\ ret.num_poor < ret.total_population
    /\ Leq(CutoffUsed, ret.intensity)
    /\ Less(Zero, ret.MPI)

\* no household reaches a positive cutoff: intensity and MPI are 0
C30_WitnessNonePoor ==
    /\ Returned("calculate_population_mpi")
    /\ call.households # <<>>
    /\ Less(Zero, CutoffUsed)
    /\ ret.num_poor = 0 /\ ret.intensity = Zero /\ ret.MPI = Zero

====
